---------------------------- MODULE Spec2Model ----------------------------
(***************************************************************************)
(* MediRank (src/app2.py): a Streamlit script.  Every user interaction     *)
(* re-executes the script from the top against the per-session             *)
(* st.session_state and the process-wide st.cache_resource cache.          *)
(*                                                                         *)
(* One action of the model is one complete script run (including the run   *)
(* that an st.rerun() starts), triggered by a widget the previous run      *)
(* rendered.  Library behaviour the script relies on is modelled by what   *)
(* the library does:                                                       *)
(*   - open() raises FileNotFoundError for an absent file and another      *)
(*     exception (PermissionError, UnpicklingError, ...) for a file that   *)
(*     is present but cannot be read;                                      *)
(*   - st.cache_resource stores a returned value and stores nothing when   *)
(*     the wrapped function raises;                                        *)
(*   - LabelEncoder.transform raises ValueError on an unseen label;        *)
(*   - DataFrame.sort_values(by=..., ascending=True) uses its default      *)
(*     kind="quicksort", which is not stable: the order of rows with equal *)
(*     keys is whatever the numpy build produces, modelled here as a       *)
(*     nondeterministic choice among the cost-sorted row orders.           *)
(***************************************************************************)
EXTENDS Integers, Sequences, FiniteSets, TLC

\* ------------------------------------------------------------ bounds

\* Number of candidate provider rows (100 in the source, line 111).
NumProviders == 4

\* How many times one loader's body may execute before the model stops
\* counting (the counter is unbounded when a file stays unreadable).
MaxLoads == 2

\* ------------------------------------------------------- program data

None == "None"

FirstProviderId == 520000

TopN == 3

USER_CREDENTIALS == [admin |-> "password123", user |-> "medi123"]

\* Text a user may type into the login form.
Usernames == {"admin", "user", "Admin", "guest"}

Passwords == {"password123", "medi123", "Password123", ""}

ModelFiles == <<"inpatient_model.pkl", "outpatient_model.pkl">>

EncoderFiles ==
    <<"le_drg.pkl", "le_state.pkl", "le_drg_outpatient.pkl", "le_state_outpatient.pkl">>

Range(s) == {s[i] : i \in DOMAIN s}

FileNames == Range(ModelFiles) \cup Range(EncoderFiles)

FileStatus == {"ok", "missing", "unreadable"}

\* Predicted costs a model may return for a row (ordered like the floats).
CostValues == {100, 200}

\* classes_ of the pickled encoders: sorted label sequences.
classes_(path) ==
    CASE path = "le_drg.pkl" -> <<"039", "057">>
      [] path = "le_state.pkl" -> <<"CA", "NY">>
      [] path = "le_drg_outpatient.pkl" -> <<"0012">>
      [] path = "le_state_outpatient.pkl" -> <<"TX">>
      [] OTHER -> <<>>

\* Every label of any encoder.
AllLabels == UNION {Range(classes_(EncoderFiles[i])) : i \in DOMAIN EncoderFiles}

\* What pickle.load yields for a readable file: the artifact, named by its file.
Unpickled(path) == path

ServiceTypes == {"Inpatient", "Outpatient"}

Min(S) == CHOOSE x \in S : \A y \in S : x <= y

\* -------------------------------------------------------------- state

VARIABLES
    session,          \* st.session_state: [logged_in, username]
    cache,            \* st.cache_resource entries of load_models / load_encoders
    loads,            \* how often each loader's body has executed (disk reads)
    files,            \* the six artifact files on disk
    widgets,          \* the controls the last script run rendered
    messages,         \* the st.error / st.write outcomes of the last script run
    predicted,        \* Average_Total_Payments per candidate row of the last request
    top_3_hospitals,  \* the dataframe displayed by the last script run
    event             \* what triggered the last script run

vars ==
    <<session, cache, loads, files, widgets, messages, predicted, top_3_hospitals, event>>

\* A cache entry that holds no value yet.
Empty == <<>>

Anonymous == [logged_in |-> FALSE, username |-> None]

\* ------------------------------------------------- Load Models & Encoders

\* The try body of a loader: the files are opened and unpickled in order; the
\* first file that fails decides the outcome.  Only FileNotFoundError is caught
\* (lines 16 and 33): an absent file gives the all-None tuple, a file that is
\* present but unreadable raises out of the loader.
load_files(paths, fs) ==
    LET bad == {i \in DOMAIN paths : fs[paths[i]] # "ok"}
    IN  IF bad = {}
        THEN [kind |-> "return", value |-> [i \in DOMAIN paths |-> Unpickled(paths[i])]]
        ELSE IF fs[paths[Min(bad)]] = "missing"
             THEN [kind |-> "return", value |-> [i \in DOMAIN paths |-> None]]
             ELSE [kind |-> "raise", value |-> <<>>]

load_models(fs) == load_files(ModelFiles, fs)

load_encoders(fs) == load_files(EncoderFiles, fs)

\* @st.cache_resource: a stored value is returned without running the body; a
\* returned value is stored; a raised exception stores nothing.
cache_resource(entry, body) ==
    IF entry # Empty
    THEN [kind |-> "return", value |-> entry, entry |-> entry, ran |-> 0]
    ELSE [kind |-> body.kind, value |-> body.value,
          entry |-> IF body.kind = "return" THEN body.value ELSE Empty, ran |-> 1]

\* ------------------------------------------------------------ Login System

initialize_session_state == Anonymous

\* Mutant: the password is not compared.
authenticate_username_only(username, password) ==
    username \in DOMAIN USER_CREDENTIALS

\* The test of line 61.
authenticate(username, password) ==
    /\ username \in DOMAIN USER_CREDENTIALS
    /\ USER_CREDENTIALS[username] = password

\* Mutant: a rejected attempt still records the submitted username.
login_remembers_username(sess, username, password) ==
    IF authenticate(username, password)
    THEN [logged_in |-> TRUE, username |-> username]
    ELSE [sess EXCEPT !.username = username]

\* The session after the Login button's branch (lines 61-68).
login(sess, username, password) ==
    IF authenticate(username, password)
    THEN [logged_in |-> TRUE, username |-> username]
    ELSE sess

\* Mutant: the username is not cleared.
logout_keeps_username(sess) == [sess EXCEPT !.logged_in = FALSE]

logout(sess) == [logged_in |-> FALSE, username |-> None]

LoginWidgets == {"Username", "Password", "Login"}

\* -------------------------------------------------------- Ranking pipeline

\* provider_ids = list(range(520000, 520100)), bounded to NumProviders rows.
provider_ids == [i \in 1..NumProviders |-> FirstProviderId + i - 1]

\* What model.predict may do with the candidate table: raise, or return one
\* cost per row.
PredictOutcomes ==
    {[kind |-> "raise", value |-> <<>>]}
        \cup {[kind |-> "return", value |-> v] : v \in [1..NumProviders -> CostValues]}

\* LabelEncoder.transform([label])[0]: the 0-based position of the label in
\* classes_, or ValueError for a label the encoder never saw.
transform(classes, label) ==
    IF \E i \in DOMAIN classes : classes[i] = label
    THEN [kind |-> "return", value |-> (CHOOSE i \in DOMAIN classes : classes[i] = label) - 1]
    ELSE [kind |-> "raise", value |-> -1]

\* The row orders sort_values(by="Average_Total_Payments", ascending=True) may
\* produce: ascending by cost, rows of equal cost in any order (quicksort).
RECURSIVE SortedOrders(_, _)
SortedOrders(cost, rows) ==
    IF rows = {}
    THEN {<<>>}
    ELSE LET least == {i \in rows : \A j \in rows : cost[i] <= cost[j]}
         IN  UNION {{<<i>> \o rest : rest \in SortedOrders(cost, rows \ {i})} : i \in least}

\* Mutant: the frame is left in its original row order.
sort_values_unsorted(cost) == {[i \in DOMAIN cost |-> i]}

sort_values(cost) == SortedOrders(cost, DOMAIN cost)

\* input_data_sorted["Rank"] = input_data_sorted.index + 1 after reset_index.
Rank(position) == position + 1

\* The sorted frame with its Rank column, projected to the displayed columns;
\* positions are the 0-based index of the frame.
input_data_sorted(cost, order) ==
    [k \in 1..Len(order) |->
        [Rank |-> Rank(k - 1),
         Provider_Id |-> provider_ids[order[k]],
         Average_Total_Payments |-> cost[order[k]]]]

\* DataFrame.head(n).
head(frame, n) == SubSeq(frame, 1, IF Len(frame) < n THEN Len(frame) ELSE n)

\* The encoders and the model the service type selects (lines 99-104, 117-124):
\* models = (inpatient, outpatient), encoders = (drg, state, apc, state).
ProcedureEncoder(service_type, encoders) ==
    IF service_type = "Inpatient" THEN encoders[1] ELSE encoders[3]

StateEncoder(service_type, encoders) ==
    IF service_type = "Inpatient" THEN encoders[2] ELSE encoders[4]

\* Mutant: a failure is swallowed and the (empty) frame is displayed.
find_best_hospitals_swallow(service_type, procedure, state, encoders, prediction, order) ==
    [kind |-> "table", predicted |-> prediction.value,
     rows |-> head(input_data_sorted(prediction.value, order), TopN)]

\* The body of the try block (lines 116-149): "table" with the displayed rows,
\* or "error" when encoding or prediction raised (line 151 catches Exception).
find_best_hospitals(service_type, procedure, state, encoders, prediction, order) ==
    LET encoded_procedure ==
            transform(classes_(ProcedureEncoder(service_type, encoders)), procedure)
        encoded_state ==
            transform(classes_(StateEncoder(service_type, encoders)), state)
    IN  IF \/ encoded_procedure.kind = "raise"
           \/ encoded_state.kind = "raise"
           \/ prediction.kind = "raise"
        THEN [kind |-> "error", predicted |-> <<>>, rows |-> <<>>]
        ELSE [kind |-> "table", predicted |-> prediction.value,
              rows |-> head(input_data_sorted(prediction.value, order), TopN)]

\* -------------------------------------------------------- Main application

MainWidgets == {"Logout", "ServiceType", "Procedure", "State", "FindBest"}

\* Mutant: the Logout button is created before the artifacts are checked.
WidgetsOnLoadFailure_with_logout == {"Logout"}

\* What main_app has rendered when it returns at line 91: the Logout button
\* (line 94), the selectors and the ranking button come after the return.
WidgetsOnLoadFailure == {}

\* Mutant: only the models are tested for None.
ArtifactsMissing_models_only(models, encoders) == None \in Range(models)

\* The test of line 89.
ArtifactsMissing(models, encoders) == None \in Range(models) \cup Range(encoders)

\* The options of the Procedure and State selectors (lines 99-108).
procedure_options(service_type, encoders) ==
    Range(classes_(ProcedureEncoder(service_type, encoders)))

state_options(service_type, encoders) ==
    Range(classes_(StateEncoder(service_type, encoders)))

\* What one script run leaves behind.
Page(sess, c, l, w, msgs, pred, rows) ==
    [session |-> sess, cache |-> c, loads |-> l, widgets |-> w, messages |-> msgs,
     predicted |-> pred, top_3_hospitals |-> rows]

\* A script run in which the "Find Best Hospitals" button is not pressed.
NoRequest ==
    [click |-> FALSE, service_type |-> "Inpatient", procedure |-> None, state |-> None,
     prediction |-> [kind |-> "raise", value |-> <<>>], order |-> <<>>]

\* The st.error a loader shows when it returns the all-None tuple.
LoaderMessages(models, encoders) ==
    (IF None \in Range(models) THEN {"ModelFilesNotFound"} ELSE {})
        \cup (IF None \in Range(encoders) THEN {"EncoderFilesNotFound"} ELSE {})

\* main_app (lines 79-152).  An exception a loader raises is not caught: the
\* run ends there, with nothing after line 83 rendered.
main_app(sess, c, l, fs, request) ==
    LET m  == cache_resource(c.models, load_models(fs))
        c1 == [c EXCEPT !.models = m.entry]
        l1 == [l EXCEPT !.models = @ + m.ran]
        e  == cache_resource(c.encoders, load_encoders(fs))
        c2 == [c1 EXCEPT !.encoders = e.entry]
        l2 == [l1 EXCEPT !.encoders = @ + e.ran]
    IN  IF m.kind = "raise"
        THEN Page(sess, c1, l1, {}, {"Welcome", "UncaughtException"}, <<>>, <<>>)
        ELSE IF e.kind = "raise"
        THEN Page(sess, c2, l2, {}, {"Welcome", "UncaughtException"}, <<>>, <<>>)
        ELSE IF ArtifactsMissing(m.value, e.value)
        THEN Page(sess, c2, l2, WidgetsOnLoadFailure,
                  {"Welcome", "UnableToLoad"} \cup LoaderMessages(m.value, e.value),
                  <<>>, <<>>)
        ELSE IF request.click
        THEN LET r == find_best_hospitals(request.service_type, request.procedure,
                                          request.state, e.value, request.prediction,
                                          request.order)
             IN  Page(sess, c2, l2, MainWidgets,
                      {"Welcome"} \cup (IF r.kind = "error" THEN {"PredictionError"}
                                                            ELSE {"Top3"}),
                      r.predicted, r.rows)
        ELSE Page(sess, c2, l2, MainWidgets, {"Welcome"}, <<>>, <<>>)

\* One run of the script from the top (lines 157-162) with no Login click.
run_script(sess, c, l, fs, request) ==
    IF ~sess.logged_in
    THEN Page(sess, c, l, LoginWidgets, {}, <<>>, <<>>)
    ELSE main_app(sess, c, l, fs, request)

\* The run in which the Login button is pressed (lines 60-68): a match sets
\* the session and st.rerun() restarts the script; a mismatch shows the error.
login_page(sess, c, l, fs, username, password) ==
    IF authenticate(username, password)
    THEN run_script(login(sess, username, password), c, l, fs, NoRequest)
    ELSE Page(login(sess, username, password), c, l, LoginWidgets,
              {"InvalidCredentials"}, <<>>, <<>>)

\* ------------------------------------------------------------------ actions

\* What triggered a script run, with the inputs the properties speak about:
\* the submitted credentials of a login, whether predict returned or raised.
Event(kind, args) == [kind |-> kind, args |-> args]

Show(pg) ==
    /\ pg.loads.models <= MaxLoads
    /\ pg.loads.encoders <= MaxLoads
    /\ session' = pg.session
    /\ cache' = pg.cache
    /\ loads' = pg.loads
    /\ widgets' = pg.widgets
    /\ messages' = pg.messages
    /\ predicted' = pg.predicted
    /\ top_3_hospitals' = pg.top_3_hospitals
    /\ UNCHANGED files

Init ==
    /\ session = initialize_session_state
    /\ cache = [models |-> Empty, encoders |-> Empty]
    /\ loads = [models |-> 0, encoders |-> 0]
    /\ files \in [FileNames -> FileStatus]
    /\ widgets = LoginWidgets
    /\ messages = {}
    /\ predicted = <<>>
    /\ top_3_hospitals = <<>>
    /\ event = Event("start", <<>>)

\* The user submits the login form.
Login ==
    /\ LoginWidgets \subseteq widgets
    /\ \E username \in Usernames, password \in Passwords :
          /\ Show(login_page(session, cache, loads, files, username, password))
          /\ event' = Event("login", <<username, password>>)

\* The user presses the sidebar Logout button: the on_click callback runs,
\* then the script.
Logout ==
    /\ "Logout" \in widgets
    /\ Show(run_script(logout(session), cache, loads, files, NoRequest))
    /\ event' = Event("logout", <<>>)

\* The user presses "Find Best Hospitals" with the selectors' current values.
RankRequest ==
    /\ {"ServiceType", "Procedure", "State", "FindBest"} \subseteq widgets
    /\ cache.encoders # Empty
    /\ \E service_type \in ServiceTypes, prediction \in PredictOutcomes :
          \E procedure \in procedure_options(service_type, cache.encoders),
             state \in state_options(service_type, cache.encoders),
             order \in (IF prediction.kind = "return"
                        THEN sort_values(prediction.value) ELSE {<<>>}) :
            /\ Show(run_script(session, cache, loads, files,
                               [click |-> TRUE, service_type |-> service_type,
                                procedure |-> procedure, state |-> state,
                                prediction |-> prediction, order |-> order]))
            /\ event' = Event("rank", <<prediction.kind>>)

\* Any other rerun of the script: a selector changed, or the page was rerun.
Rerun ==
    /\ Show(run_script(session, cache, loads, files, NoRequest))
    /\ event' = Event("rerun", <<>>)

\* The environment: an operator puts a missing artifact file in place.
RestoreFile ==
    /\ \E f \in FileNames :
          /\ files[f] = "missing"
          /\ files' = [files EXCEPT ![f] = "ok"]
    /\ event' = Event("restore", <<>>)
    /\ UNCHANGED <<session, cache, loads, widgets, messages, predicted, top_3_hospitals>>

Next == Login \/ Logout \/ RankRequest \/ Rerun \/ RestoreFile

Spec == Init /\ [][Next]_vars

\* ------------------------------------------------------------- properties

Authenticated(username) == [logged_in |-> TRUE, username |-> username]

Sentinel(paths) == [i \in DOMAIN paths |-> None]

AllLoaded == cache.models = ModelFiles /\ cache.encoders = EncoderFiles

HasSentinel == None \in Range(cache.models) \cup Range(cache.encoders)

RankingWidgets == {"ServiceType", "Procedure", "State", "FindBest"}

ReturnedIds == {top_3_hospitals[k].Provider_Id : k \in DOMAIN top_3_hospitals}

\* C1: a login attempt with (username, password) succeeds iff username is a key
\* of USER_CREDENTIALS and the stored password equals the submitted one exactly;
\* on success the session becomes {logged_in: true, username}; any other pair is
\* rejected and leaves the session as it was.
C1_LoginContract ==
    [][event'.kind = "login" =>
        LET username == event'.args[1]
            password == event'.args[2]
        IN  IF \E u \in DOMAIN USER_CREDENTIALS :
                   u = username /\ USER_CREDENTIALS[u] = password
            THEN /\ session' = Authenticated(username)
                 /\ "InvalidCredentials" \notin messages'
            ELSE /\ session' = session
                 /\ "InvalidCredentials" \in messages']_vars

C1_Witness ==
    /\ event = Event("login", <<"admin", "password123">>)
    /\ session = Authenticated("admin")

\* C2: whenever a ranking request is made and the model returns a cost for every
\* candidate row, exactly 3 rows are displayed, their Rank values are 1, 2, 3 in
\* that order, their costs are non-decreasing, each row is a distinct candidate
\* with its predicted cost, and every returned cost is at most the cost of every
\* candidate that was not returned.
C2_RankTop3 ==
    (event = Event("rank", <<"return">>)) =>
        /\ "Top3" \in messages
        /\ Len(top_3_hospitals) = 3
        /\ \A k \in 1..3 : top_3_hospitals[k].Rank = k
        /\ \A k \in 1..2 :
              top_3_hospitals[k].Average_Total_Payments
                  <= top_3_hospitals[k + 1].Average_Total_Payments
        /\ Cardinality(ReturnedIds) = 3
        /\ \A k \in 1..3 :
              \E i \in DOMAIN predicted :
                  /\ provider_ids[i] = top_3_hospitals[k].Provider_Id
                  /\ predicted[i] = top_3_hospitals[k].Average_Total_Payments
        /\ \A i \in DOMAIN predicted :
              provider_ids[i] \notin ReturnedIds =>
                  \A k \in 1..3 : top_3_hospitals[k].Average_Total_Payments <= predicted[i]

C2_Witness ==
    /\ event = Event("rank", <<"return">>)
    /\ Len(top_3_hospitals) = 3
    /\ top_3_hospitals[1].Average_Total_Payments < top_3_hospitals[3].Average_Total_Payments
    /\ \E i \in DOMAIN predicted : provider_ids[i] \notin ReturnedIds

\* C3: candidates of equal predicted cost keep the provider-ID order of the
\* table: among tied rows the smaller Provider_Id has the smaller Rank, and a
\* candidate left out of the top 3 never has a smaller Provider_Id than a
\* returned row of the same cost.
C3_StableTies ==
    "Top3" \in messages =>
        /\ \A k, l \in DOMAIN top_3_hospitals :
              (/\ k < l
               /\ top_3_hospitals[k].Average_Total_Payments
                      = top_3_hospitals[l].Average_Total_Payments)
                  => top_3_hospitals[k].Provider_Id < top_3_hospitals[l].Provider_Id
        /\ \A k \in DOMAIN top_3_hospitals, i \in DOMAIN predicted :
              (/\ provider_ids[i] \notin ReturnedIds
               /\ predicted[i] = top_3_hospitals[k].Average_Total_Payments)
                  => top_3_hospitals[k].Provider_Id < provider_ids[i]

\* C4: the session starts ANONYMOUS and is always either ANONYMOUS or
\* AUTHENTICATED as a user of the store; it changes only from ANONYMOUS to
\* AUTHENTICATED by a login attempt whose credentials match, and only from
\* AUTHENTICATED to ANONYMOUS by logout; no other step changes it.
C4_SessionMachine ==
    /\ session = Anonymous
    /\ [](\/ session = Anonymous
          \/ \E u \in DOMAIN USER_CREDENTIALS : session = Authenticated(u))
    /\ [][session' # session =>
            \/ /\ session = Anonymous
               /\ event'.kind = "login"
               /\ event'.args[1] \in DOMAIN USER_CREDENTIALS
               /\ USER_CREDENTIALS[event'.args[1]] = event'.args[2]
               /\ session' = Authenticated(event'.args[1])
            \/ /\ session.logged_in
               /\ event'.kind = "logout"
               /\ session' = Anonymous]_vars

C4_Witness ==
    /\ event.kind = "login"
    /\ session = Anonymous
    /\ AllLoaded
    /\ "InvalidCredentials" \in messages

\* C5: logout resets any session to {logged_in: false, username: null}, and the
\* step in which it runs changes neither the cached artifacts nor what was read
\* from disk nor the files.
C5_LogoutResets ==
    /\ [](\A s \in {Anonymous} \cup {Authenticated(u) : u \in Usernames} :
            logout(s) = [logged_in |-> FALSE, username |-> None])
    /\ [][event'.kind = "logout" =>
            /\ session' = [logged_in |-> FALSE, username |-> None]
            /\ UNCHANGED <<cache, loads, files>>]_vars

C5_Witness ==
    /\ event.kind = "logout"
    /\ session = Anonymous
    /\ widgets = LoginWidgets

\* C6: whenever the body of load_models or load_encoders runs while one of its
\* files is absent or unreadable, the loader returns (and caches) the all-None
\* tuple and no exception leaves it; a cached tuple is never partly loaded.
C6_LoaderNeverRaises ==
    [][/\ (/\ loads'.models > loads.models
           /\ \E i \in DOMAIN ModelFiles : files[ModelFiles[i]] # "ok")
          => (cache'.models = Sentinel(ModelFiles)
                /\ "UncaughtException" \notin messages')
       /\ (/\ loads'.encoders > loads.encoders
           /\ \E i \in DOMAIN EncoderFiles : files[EncoderFiles[i]] # "ok")
          => (cache'.encoders = Sentinel(EncoderFiles)
                /\ "UncaughtException" \notin messages')
       /\ cache'.models \in {Empty, ModelFiles, Sentinel(ModelFiles)}
       /\ cache'.encoders \in {Empty, EncoderFiles, Sentinel(EncoderFiles)}]_vars

\* C7: over any sequence of page runs each loader reads its files at most once
\* (its body runs only if it never ran before), and once a result is cached
\* every later call returns that same result.
C7_LoadedAtMostOnce ==
    [][/\ loads'.models > loads.models => loads.models = 0
       /\ loads'.encoders > loads.encoders => loads.encoders = 0
       /\ cache.models # Empty => cache'.models = cache.models
       /\ cache.encoders # Empty => cache'.encoders = cache.encoders]_vars

\* Every request with a label outside the selected encoder's classes_ fails:
\* transform raises and the pipeline ends in its error outcome.
UnseenLabelFails ==
    \A service_type \in ServiceTypes, label \in AllLabels \cup {"unseen"},
       prediction \in PredictOutcomes :
        LET procedures == procedure_options(service_type, EncoderFiles)
            states == state_options(service_type, EncoderFiles)
        IN  /\ label \notin procedures =>
                 /\ transform(classes_(ProcedureEncoder(service_type, EncoderFiles)),
                              label).kind = "raise"
                 /\ \A state \in states :
                      find_best_hospitals(service_type, label, state, EncoderFiles,
                                          prediction, <<>>).kind = "error"
            /\ label \notin states =>
                 /\ transform(classes_(StateEncoder(service_type, EncoderFiles)),
                              label).kind = "raise"
                 /\ \A procedure \in procedures :
                      find_best_hospitals(service_type, procedure, label, EncoderFiles,
                                          prediction, <<>>).kind = "error"

\* C8: a label outside an encoder's classes_ makes the pipeline fail instead of
\* being encoded, and a ranking request whose prediction raises ends with the
\* error message and no table, without an uncaught exception; the session is
\* unchanged and the ranking and logout controls are still offered.
C8_FailureCaught ==
    /\ []UnseenLabelFails
    /\ [][event' = Event("rank", <<"raise">>) =>
            /\ "PredictionError" \in messages'
            /\ "Top3" \notin messages'
            /\ "UncaughtException" \notin messages'
            /\ top_3_hospitals' = <<>>
            /\ session' = session
            /\ RankingWidgets \cup {"Logout"} \subseteq widgets']_vars

C8_Witness ==
    /\ event = Event("rank", <<"raise">>)
    /\ "PredictionError" \in messages
    /\ session.logged_in

\* C9: the ranking controls are offered, and a ranking request has run, only
\* when the session is logged in and all six artifacts are loaded; an anonymous
\* session is offered exactly the login form; a logged-in page whose artifacts
\* include a None offers neither the selectors nor the ranking button.
C9_AccessGating ==
    /\ (\/ RankingWidgets \cap widgets # {}
        \/ event.kind = "rank"
        \/ {"Top3", "PredictionError"} \cap messages # {})
          => (session.logged_in /\ AllLoaded)
    /\ ~session.logged_in => widgets = LoginWidgets
    /\ (session.logged_in /\ HasSentinel) => RankingWidgets \cap widgets = {}

C9_Witness ==
    /\ session.logged_in
    /\ cache.models = ModelFiles
    /\ cache.encoders = Sentinel(EncoderFiles)
    /\ "UnableToLoad" \in messages
    /\ RankingWidgets \cap widgets = {}

\* C10: the Logout control is offered only when the session is logged in and all
\* six artifacts are loaded; in a logged-in session whose cached load result is
\* the None tuple no Logout control is offered and no step changes the session.
C10_LogoutAvailability ==
    /\ []("Logout" \in widgets => (session.logged_in /\ AllLoaded))
    /\ []((session.logged_in /\ HasSentinel) => "Logout" \notin widgets)
    /\ [][(session.logged_in /\ HasSentinel) => session' = session]_vars

C10_Witness ==
    /\ session.logged_in
    /\ cache.models = Sentinel(ModelFiles)
    /\ \A f \in FileNames : files[f] = "ok"
    /\ event.kind = "rerun"
    /\ "Logout" \notin widgets

=============================================================================
